---- MODULE Spec2Model ----
(***************************************************************************)
(* Model of the encoding_mcp detection-and-transcoding engine:            *)
(*   encoding_mcp/encoding_detector.py  (BOM sniffer, library detectors,  *)
(*                                       heuristic fallback, orchestrator)*)
(*   encoding_mcp/file_operations.py    (registry, read/write, convert)   *)
(* Bytes are naturals 0..255, a file's content is a sequence of bytes, a  *)
(* text is a sequence of Unicode code points.                              *)
(***************************************************************************)
EXTENDS Integers, Sequences, FiniteSets, TLC

VARIABLES
    file,                     \* the file at <path>: [exists, data]
    backup,                   \* the file at <path>.backup: [exists, data]
    mode,                     \* access rights: [r, w] of <path>, [bw] of <path>.backup
    pathMarker,               \* TRUE iff the text of <path> contains the word "성공"
    HAS_CHARSET_NORMALIZER,   \* import charset_normalizer succeeded
    HAS_CHARDET,              \* import chardet succeeded
    platform,                 \* "posix" or "nt": decides os.linesep
    dir,                      \* the directory of <path>: [exists, word, mk]
    call,                     \* the last operation called and its arguments
    pre,                      \* file and backup as they were when that call began
    ret,                      \* the value that call returned
    log                       \* the steps that call went through, in order

env == <<mode, pathMarker, HAS_CHARSET_NORMALIZER, HAS_CHARDET, platform, dir>>
vars == <<file, backup, mode, pathMarker, HAS_CHARSET_NORMALIZER, HAS_CHARDET,
          platform, dir, call, pre, ret, log>>

(***************************************************************************)
(* Bounds of the model.                                                    *)
(***************************************************************************)
MaxData == 4
MaxWindow == 3

\* bytes the files of the detection specification are made of: the non-zero
\* bytes of the five signatures
DetectBytes == {187, 191, 239, 254, 255}

\* further files of the detection specification: "hello", the syllable
\* U+D55C in utf-8 and in cp949, the two UTF-32 signatures, and U+00C0 twice
\* in utf-8
DetectSamples ==
    {<<104, 101, 108, 108, 111>>, <<237, 149, 156>>, <<199, 209>>,
     <<255, 254, 0, 0>>, <<0, 0, 254, 255>>, <<195, 128, 195, 128>>}

RECURSIVE SeqsUpTo(_, _)
SeqsUpTo(S, n) ==
    IF n = 0 THEN {<<>>}
    ELSE LET shorter == SeqsUpTo(S, n - 1)
         IN  shorter \cup {Append(s, x) : s \in {t \in shorter : Len(t) = n - 1}, x \in S}

StartsWith(raw, sig) ==
    /\ Len(raw) >= Len(sig)
    /\ SubSeq(raw, 1, Len(sig)) = sig

Prefix(data, n) == SubSeq(data, 1, IF n < Len(data) THEN n ELSE Len(data))

\* f.read(read_size) of a binary file, read_size = min(max_bytes, file_size):
\* -1 reads the whole file, a size below -1 raises ValueError
ReadableSize(max_bytes) == max_bytes >= -1
ReadBytes(data, max_bytes) ==
    IF max_bytes = -1 THEN data ELSE Prefix(data, max_bytes)

(***************************************************************************)
(* encoding_detector.py: the signature table and detect_bom                *)
(***************************************************************************)
UTF8_BOM == <<239, 187, 191>>
UTF16_LE_BOM == <<255, 254>>
UTF16_BE_BOM == <<254, 255>>
UTF32_LE_BOM == <<255, 254, 0, 0>>
UTF32_BE_BOM == <<0, 0, 254, 255>>

NoBom == [encoding |-> "None", bom_type |-> "None"]

\* a sniffer that tries the 2-byte signatures before the 4-byte ones
detect_bom_short_first(raw_data) ==
    IF StartsWith(raw_data, UTF16_BE_BOM)
      THEN [encoding |-> "utf-16-be", bom_type |-> "UTF-16 BE BOM"]
    ELSE IF StartsWith(raw_data, UTF16_LE_BOM)
      THEN [encoding |-> "utf-16-le", bom_type |-> "UTF-16 LE BOM"]
    ELSE IF StartsWith(raw_data, UTF8_BOM)
      THEN [encoding |-> "utf-8-bom", bom_type |-> "UTF-8 BOM"]
    ELSE IF StartsWith(raw_data, UTF32_BE_BOM)
      THEN [encoding |-> "utf-32-be", bom_type |-> "UTF-32 BE BOM"]
    ELSE IF StartsWith(raw_data, UTF32_LE_BOM)
      THEN [encoding |-> "utf-32-le", bom_type |-> "UTF-32 LE BOM"]
    ELSE NoBom

\* a sniffer that knows the UTF-8 and UTF-16 signatures only
detect_bom_no_utf32(raw_data) ==
    IF StartsWith(raw_data, UTF8_BOM)
      THEN [encoding |-> "utf-8-bom", bom_type |-> "UTF-8 BOM"]
    ELSE IF StartsWith(raw_data, UTF16_BE_BOM)
      THEN [encoding |-> "utf-16-be", bom_type |-> "UTF-16 BE BOM"]
    ELSE IF StartsWith(raw_data, UTF16_LE_BOM)
      THEN [encoding |-> "utf-16-le", bom_type |-> "UTF-16 LE BOM"]
    ELSE NoBom

detect_bom(raw_data) ==
    IF StartsWith(raw_data, UTF32_BE_BOM)
      THEN [encoding |-> "utf-32-be", bom_type |-> "UTF-32 BE BOM"]
    ELSE IF StartsWith(raw_data, UTF32_LE_BOM)
      THEN [encoding |-> "utf-32-le", bom_type |-> "UTF-32 LE BOM"]
    ELSE IF StartsWith(raw_data, UTF8_BOM)
      THEN [encoding |-> "utf-8-bom", bom_type |-> "UTF-8 BOM"]
    ELSE IF StartsWith(raw_data, UTF16_BE_BOM)
      THEN [encoding |-> "utf-16-be", bom_type |-> "UTF-16 BE BOM"]
    ELSE IF StartsWith(raw_data, UTF16_LE_BOM)
      THEN [encoding |-> "utf-16-le", bom_type |-> "UTF-16 LE BOM"]
    ELSE NoBom

(***************************************************************************)
(* The codecs the code calls (bytes.decode, open(..., encoding=...)).      *)
(* A decode returns [ok, text]; ok = FALSE stands for UnicodeDecodeError.  *)
(***************************************************************************)
DecodeError == [ok |-> FALSE, text |-> <<>>]

\* 'ascii', strict
ascii_decode(raw) ==
    IF \A i \in 1..Len(raw) : raw[i] < 128
      THEN [ok |-> TRUE, text |-> raw]
      ELSE DecodeError

\* 'utf-8', strict: no overlong forms, no surrogates, nothing above U+10FFFF
Utf8Len(b0) ==
    IF b0 < 128 THEN 1
    ELSE IF b0 >= 194 /\ b0 <= 223 THEN 2
    ELSE IF b0 >= 224 /\ b0 <= 239 THEN 3
    ELSE IF b0 >= 240 /\ b0 <= 244 THEN 4
    ELSE 0

Utf8Cont(x) == x >= 128 /\ x <= 191

Utf8SecondOk(b0, b1) ==
    IF b0 = 224 THEN b1 >= 160 /\ b1 <= 191
    ELSE IF b0 = 237 THEN b1 >= 128 /\ b1 <= 159
    ELSE IF b0 = 240 THEN b1 >= 144 /\ b1 <= 191
    ELSE IF b0 = 244 THEN b1 >= 128 /\ b1 <= 143
    ELSE Utf8Cont(b1)

Utf8Valid(raw, i, n) ==
    /\ n > 0
    /\ i + n - 1 <= Len(raw)
    /\ n >= 2 => Utf8SecondOk(raw[i], raw[i + 1])
    /\ \A k \in 2..(n - 1) : Utf8Cont(raw[i + k])

Utf8Cp(raw, i, n) ==
    IF n = 1 THEN raw[i]
    ELSE IF n = 2 THEN (raw[i] - 192) * 64 + (raw[i + 1] - 128)
    ELSE IF n = 3 THEN (raw[i] - 224) * 4096 + (raw[i + 1] - 128) * 64 + (raw[i + 2] - 128)
    ELSE (raw[i] - 240) * 262144 + (raw[i + 1] - 128) * 4096
         + (raw[i + 2] - 128) * 64 + (raw[i + 3] - 128)

RECURSIVE Utf8DecodeFrom(_, _)
Utf8DecodeFrom(raw, i) ==
    IF i > Len(raw) THEN [ok |-> TRUE, text |-> <<>>]
    ELSE LET n == Utf8Len(raw[i])
         IN  IF ~Utf8Valid(raw, i, n) THEN DecodeError
             ELSE LET rest == Utf8DecodeFrom(raw, i + n)
                  IN  IF rest.ok
                        THEN [ok |-> TRUE, text |-> <<Utf8Cp(raw, i, n)>> \o rest.text]
                        ELSE DecodeError

utf8_decode(raw) == Utf8DecodeFrom(raw, 1)

\* 'iso-8859-1': every byte is a character
latin1_decode(raw) == [ok |-> TRUE, text |-> raw]

(***************************************************************************)
(* 'cp949' and 'euc-kr'.  Bytes below 0x80 stand for themselves; the other *)
(* characters are given by table, <<code point, bytes>>, for the           *)
(* characters that the byte strings and texts of this model contain.       *)
(* 'euc-kr' writes a Hangul syllable outside KS X 1001 as the eight-byte   *)
(* make-up sequence.                                                       *)
(***************************************************************************)
Cp949Table ==
    {
      <<20506, <<235, 239>>>>, <<21344, <<239, 191>>>>, <<25033, <<235, 235>>>>,
      <<30010, <<239, 235>>>>, <<30308, <<239, 187>>>>, <<31243, <<239, 239>>>>,
      <<32905, <<235, 191>>>>, <<35516, <<235, 254>>>>, <<38742, <<239, 254>>>>,
      <<48867, <<187, 187>>>>, <<48891, <<150, 134>>>>, <<48895, <<150, 138>>>>,
      <<48897, <<187, 191>>>>, <<49147, <<151, 187>>>>, <<49151, <<151, 191>>>>,
      <<49331, <<187, 235>>>>, <<49340, <<187, 239>>>>, <<49380, <<187, 254>>>>,
      <<50704, <<191, 187>>>>, <<50716, <<191, 191>>>>, <<50857, <<191, 235>>>>,
      <<50872, <<191, 239>>>>, <<50920, <<191, 254>>>>, <<54052, <<187, 97>>>>,
      <<54457, <<191, 97>>>>, <<54620, <<199, 209>>>>, <<63953, <<235, 187>>>>
    }

EucKrTable ==
    {
      <<20506, <<235, 239>>>>, <<21344, <<239, 191>>>>, <<25033, <<235, 235>>>>,
      <<30010, <<239, 235>>>>, <<30308, <<239, 187>>>>, <<31243, <<239, 239>>>>,
      <<32905, <<235, 191>>>>, <<35516, <<235, 254>>>>, <<38742, <<239, 254>>>>,
      <<48867, <<187, 187>>>>, <<48891, <<164, 212, 164, 179, 164, 196, 164, 176>>>>, <<48895, <<164, 212, 164, 179, 164, 196, 164, 181>>>>,
      <<48897, <<187, 191>>>>, <<49147, <<164, 212, 164, 179, 164, 205, 164, 181>>>>, <<49151, <<164, 212, 164, 179, 164, 205, 164, 186>>>>,
      <<49331, <<187, 235>>>>, <<49340, <<187, 239>>>>, <<49380, <<187, 254>>>>,
      <<50704, <<191, 187>>>>, <<50716, <<191, 191>>>>, <<50857, <<191, 235>>>>,
      <<50872, <<191, 239>>>>, <<50920, <<191, 254>>>>, <<54052, <<164, 212, 164, 189, 164, 191, 164, 187>>>>,
      <<54457, <<164, 212, 164, 189, 164, 206, 164, 170>>>>, <<54620, <<199, 209>>>>, <<63953, <<235, 187>>>>
    }

TableHits(table, raw, i) ==
    {e \in table : StartsWith(SubSeq(raw, i, Len(raw)), e[2])}

LongestHit(hits) ==
    CHOOSE e \in hits : \A f \in hits : Len(f[2]) <= Len(e[2])

RECURSIVE TableDecodeFrom(_, _, _)
TableDecodeFrom(table, raw, i) ==
    IF i > Len(raw) THEN [ok |-> TRUE, text |-> <<>>]
    ELSE IF raw[i] < 128
      THEN LET rest == TableDecodeFrom(table, raw, i + 1)
           IN  IF rest.ok THEN [ok |-> TRUE, text |-> <<raw[i]>> \o rest.text]
               ELSE DecodeError
    ELSE LET hits == TableHits(table, raw, i)
         IN  IF hits = {} THEN DecodeError
             ELSE LET e == LongestHit(hits)
                      rest == TableDecodeFrom(table, raw, i + Len(e[2]))
                  IN  IF rest.ok THEN [ok |-> TRUE, text |-> <<e[1]>> \o rest.text]
                      ELSE DecodeError

cp949_decode(raw) == TableDecodeFrom(Cp949Table, raw, 1)
euc_kr_decode(raw) == TableDecodeFrom(EucKrTable, raw, 1)

(***************************************************************************)
(* encoding_detector.py: fallback_encoding_detection                       *)
(***************************************************************************)
IsKorean(c) == c >= 44032 /\ c <= 55215      \* '가' <= c <= '힯'
IsCjk(c) == c >= 19968 /\ c <= 40959         \* '一' <= c <= '鿿'

Utf8Confidence(decoded) ==
    LET has_korean == \E i \in 1..Len(decoded) : IsKorean(decoded[i])
        has_cjk == \E i \in 1..Len(decoded) : IsCjk(decoded[i])
    IN  IF has_korean \/ has_cjk THEN 90 ELSE 85

\* the dicts the fallback returns
FallbackAsciiSure == [encoding |-> "ascii", confidence |-> 100, method |-> "fallback-ascii"]
FallbackAscii == [encoding |-> "ascii", confidence |-> 95, method |-> "fallback-ascii"]
FallbackUtf8(decoded) ==
    [encoding |-> "utf-8", confidence |-> Utf8Confidence(decoded), method |-> "fallback-utf8"]
FallbackCp949 == [encoding |-> "cp949", confidence |-> 75, method |-> "fallback-cp949"]
FallbackEucKr == [encoding |-> "euc-kr", confidence |-> 70, method |-> "fallback-euc-kr"]
FallbackLatin1Alias ==
    [encoding |-> "latin-1", confidence |-> 40, method |-> "fallback-latin1"]
FallbackLatin1 ==
    [encoding |-> "iso-8859-1", confidence |-> 40, method |-> "fallback-latin1"]
FallbackUnknown == [encoding |-> "unknown", confidence |-> 0, method |-> "fallback-unknown"]

\* a fallback that tries euc-kr before cp949
fallback_euc_kr_first(raw_data) ==
    IF ascii_decode(raw_data).ok /\ (\A i \in 1..Len(raw_data) : raw_data[i] < 128)
      THEN FallbackAscii
    ELSE IF utf8_decode(raw_data).ok THEN FallbackUtf8(utf8_decode(raw_data).text)
    ELSE IF euc_kr_decode(raw_data).ok THEN FallbackEucKr
    ELSE IF cp949_decode(raw_data).ok THEN FallbackCp949
    ELSE IF latin1_decode(raw_data).ok THEN FallbackLatin1
    ELSE FallbackUnknown

\* a fallback that does not try utf-8
fallback_without_utf8(raw_data) ==
    IF ascii_decode(raw_data).ok /\ (\A i \in 1..Len(raw_data) : raw_data[i] < 128)
      THEN FallbackAscii
    ELSE IF cp949_decode(raw_data).ok THEN FallbackCp949
    ELSE IF euc_kr_decode(raw_data).ok THEN FallbackEucKr
    ELSE IF latin1_decode(raw_data).ok THEN FallbackLatin1
    ELSE FallbackUnknown

fallback_encoding_detection(raw_data) ==
    IF ascii_decode(raw_data).ok /\ (\A i \in 1..Len(raw_data) : raw_data[i] < 128)
      THEN FallbackAscii
    ELSE IF utf8_decode(raw_data).ok THEN FallbackUtf8(utf8_decode(raw_data).text)
    ELSE IF cp949_decode(raw_data).ok THEN FallbackCp949
    ELSE IF euc_kr_decode(raw_data).ok THEN FallbackEucKr
    ELSE IF latin1_decode(raw_data).ok THEN FallbackLatin1
    ELSE FallbackUnknown

(***************************************************************************)
(* encoding_detector.py: the library detectors.  What the library answers  *)
(* is not decided by this repository: lib is its answer, [encoding,        *)
(* confidence], already lower-cased and scaled by int(x * 100), and        *)
(* encoding "None" stands for no answer (no best match, or an exception    *)
(* caught inside the wrapper).                                             *)
(***************************************************************************)
LibNames == {"ascii", "utf_8", "euc-kr"}
LibConfidences == {40, 59, 60, 100}
NoAnswer == [encoding |-> "None", confidence |-> 0]
\* no answer, "ascii" and "utf_8" with each confidence, "euc-kr" with 100
LibOutputs ==
    {NoAnswer}
      \cup {l \in [encoding : LibNames, confidence : LibConfidences] :
               l.encoding = "euc-kr" => l.confidence = 100}

detect_encoding_with_charset_normalizer(raw_data, lib) ==
    IF lib.encoding # "None"
      THEN [encoding |-> lib.encoding, confidence |-> lib.confidence,
            method |-> "charset-normalizer"]
      ELSE [encoding |-> "None", confidence |-> 0, method |-> "charset-normalizer"]

detect_encoding_with_chardet(raw_data, lib) ==
    IF lib.encoding # "None"
      THEN [encoding |-> lib.encoding, confidence |-> lib.confidence,
            method |-> "chardet"]
      ELSE [encoding |-> "None", confidence |-> 0, method |-> "chardet"]

(***************************************************************************)
(* encoding_detector.py: detect_file_encoding.  The value is [res, steps]: *)
(* res is the dict returned, steps the detectors consulted, in order.      *)
(***************************************************************************)
DEFAULT_MAX_BYTES == 8192

NoFile == [exists |-> FALSE, data |-> <<>>]

\* the directory of the path: whether it exists, whether its name contains
\* the word "실패" or "권한", and whether os.makedirs may create it
DirPresent == [exists |-> TRUE, word |-> FALSE, mk |-> TRUE]
File(d) == [exists |-> TRUE, data |-> d]

DetectionError(why) ==
    [error |-> why, encoding |-> "None", has_bom |-> FALSE, confidence |-> 0,
     method |-> "absent"]

\* an orchestrator that asks chardet as well when charset-normalizer gives
\* no encoding or less than 60
LibraryResultBoth(raw_data, hasCn, hasChardet, lib) ==
    LET first == detect_encoding_with_charset_normalizer(raw_data, lib)
    IN  IF hasCn /\ hasChardet /\ first.confidence < 60
          THEN [ran |-> <<"charset-normalizer", "chardet">>,
                result |-> detect_encoding_with_chardet(raw_data, lib)]
        ELSE IF hasCn
          THEN [ran |-> <<"charset-normalizer">>, result |-> first]
        ELSE IF hasChardet
          THEN [ran |-> <<"chardet">>,
                result |-> detect_encoding_with_chardet(raw_data, lib)]
        ELSE [ran |-> <<>>,
              result |-> [encoding |-> "None", confidence |-> 0, method |-> "None"]]

\* lines 218-224: at most one library detector, by availability
LibraryResult(raw_data, hasCn, hasChardet, lib) ==
    IF hasCn
      THEN [ran |-> <<"charset-normalizer">>,
            result |-> detect_encoding_with_charset_normalizer(raw_data, lib)]
    ELSE IF hasChardet
      THEN [ran |-> <<"chardet">>,
            result |-> detect_encoding_with_chardet(raw_data, lib)]
    ELSE [ran |-> <<>>, result |-> [encoding |-> "None", confidence |-> 0, method |-> "None"]]

\* an orchestrator that accepts a library result from confidence 50 on
ChooseResultThreshold50(raw_data, library) ==
    LET none == library.ran = <<>>
        detection_result == library.result
    IN  IF none \/ detection_result.confidence < 50
          THEN LET fallback_result == fallback_encoding_detection(raw_data)
               IN  [ran |-> library.ran \o <<"fallback">>,
                    result |-> IF none \/ fallback_result.confidence > detection_result.confidence
                                 THEN fallback_result
                                 ELSE detection_result]
          ELSE library

\* an orchestrator that takes the fallback result whenever it is the higher
ChooseResultPreferHigher(raw_data, library) ==
    LET none == library.ran = <<>>
        detection_result == library.result
        fallback_result == fallback_encoding_detection(raw_data)
    IN  [ran |-> library.ran \o <<"fallback">>,
         result |-> IF none \/ fallback_result.confidence > detection_result.confidence
                      THEN fallback_result
                      ELSE detection_result]

\* lines 226-230: the library result, or the fallback's
ChooseResult(raw_data, library) ==
    LET none == library.ran = <<>>
        detection_result == library.result
    IN  IF none \/ detection_result.confidence < 60
          THEN LET fallback_result == fallback_encoding_detection(raw_data)
               IN  [ran |-> library.ran \o <<"fallback">>,
                    result |-> IF none \/ fallback_result.confidence > detection_result.confidence
                                 THEN fallback_result
                                 ELSE detection_result]
          ELSE library

EmptyFileResult ==
    [error |-> "no", encoding |-> "empty", has_bom |-> FALSE, confidence |-> 100,
     method |-> "empty-file"]

\* lines 205-247: the bytes read, through the sniffer and the detectors
AnalyseData(raw_data, hasCn, hasChardet, lib) ==
    LET bom == detect_bom(raw_data)
    IN  IF bom.encoding # "None"
          THEN [res |-> [error |-> "no", encoding |-> bom.encoding, has_bom |-> TRUE,
                         confidence |-> 100, method |-> "bom-detection"],
                steps |-> <<"bom">>]
          ELSE LET chosen == ChooseResult(raw_data,
                                 LibraryResult(raw_data, hasCn, hasChardet, lib))
               IN  [res |-> [error |-> "no", encoding |-> chosen.result.encoding,
                             has_bom |-> FALSE,
                             confidence |-> chosen.result.confidence,
                             method |-> chosen.result.method],
                    steps |-> <<"bom">> \o chosen.ran]

\* lines 249-255: except Exception, around the whole body; "raised" stands
\* for an exception on its way out of the body
DetectExcept(r) ==
    IF r.res.error = "raised"
      THEN [res |-> DetectionError("exception"), steps |-> r.steps]
      ELSE r

\* an orchestrator without the early return for a file of size 0
detect_file_encoding_no_size_check(f, md, max_bytes, hasCn, hasChardet, lib) ==
    DetectExcept(
      IF ~f.exists
        THEN [res |-> DetectionError("not-found"), steps |-> <<>>]
      ELSE IF ~md.r \/ ~ReadableSize(max_bytes)
        THEN [res |-> DetectionError("raised"), steps |-> <<>>]
      ELSE AnalyseData(ReadBytes(f.data, max_bytes), hasCn, hasChardet, lib))

\* lines 180-255: open raises PermissionError on an unreadable file, f.read
\* raises ValueError on a size below -1
detect_file_encoding(f, md, max_bytes, hasCn, hasChardet, lib) ==
    DetectExcept(
      IF ~f.exists
        THEN [res |-> DetectionError("not-found"), steps |-> <<>>]
      ELSE IF Len(f.data) = 0
        THEN [res |-> EmptyFileResult, steps |-> <<>>]
      ELSE IF ~md.r \/ ~ReadableSize(max_bytes)
        THEN [res |-> DetectionError("raised"), steps |-> <<>>]
      ELSE AnalyseData(ReadBytes(f.data, max_bytes), hasCn, hasChardet, lib))

(***************************************************************************)
(* The detection specification: one file, any window, any library answer.  *)
(***************************************************************************)
Windows == {-2, -1} \cup (0..MaxWindow) \cup {DEFAULT_MAX_BYTES}

Idle ==
    /\ call = [op |-> "none"]
    /\ pre = [file |-> file, backup |-> backup]
    /\ ret = [kind |-> "none"]
    /\ log = <<>>

InitDetect ==
    /\ file \in {NoFile}
                 \cup {File(d) : d \in SeqsUpTo(DetectBytes, MaxData) \cup DetectSamples}
    /\ backup = NoFile
    /\ dir = DirPresent
    /\ mode = [r |-> TRUE, w |-> TRUE, bw |-> TRUE]
    /\ pathMarker = FALSE
    /\ HAS_CHARSET_NORMALIZER \in BOOLEAN
    /\ HAS_CHARDET \in BOOLEAN
    /\ platform = "posix"
    /\ Idle

\* the answers the library detector of this process can give
LibChoices ==
    IF HAS_CHARSET_NORMALIZER \/ HAS_CHARDET THEN LibOutputs ELSE {NoAnswer}

Detect(max_bytes, lib) ==
    LET d == detect_file_encoding(file, mode, max_bytes,
                                  HAS_CHARSET_NORMALIZER, HAS_CHARDET, lib)
    IN  /\ call.op = "none"
        /\ call' = [op |-> "detect", max_bytes |-> max_bytes, lib |-> lib]
        /\ pre' = [file |-> file, backup |-> backup]
        /\ ret' = d.res
        /\ log' = d.steps
        /\ UNCHANGED <<file, backup, env>>

NextDetect == \E max_bytes \in Windows, lib \in LibChoices : Detect(max_bytes, lib)

SpecDetect == InitDetect /\ [][NextDetect]_vars

(***************************************************************************)
(* file_operations.py: the registry of supported encodings                 *)
(***************************************************************************)
SUPPORTED_ENCODINGS == {"utf-8-bom", "utf-8", "cp949", "euc-kr", "ascii"}

(***************************************************************************)
(* file_operations.py: the encoders behind open(path, 'w', encoding=...)   *)
(* and str.encode.  An encode returns [ok, data]; ok = FALSE stands for    *)
(* UnicodeEncodeError.                                                     *)
(***************************************************************************)
EncodeError == [ok |-> FALSE, data |-> <<>>]

IsSurrogate(c) == c >= 55296 /\ c <= 57343

Utf8Bytes(c) ==
    IF c < 128 THEN <<c>>
    ELSE IF c < 2048 THEN <<192 + (c \div 64), 128 + (c % 64)>>
    ELSE IF c < 65536
      THEN <<224 + (c \div 4096), 128 + ((c \div 64) % 64), 128 + (c % 64)>>
    ELSE <<240 + (c \div 262144), 128 + ((c \div 4096) % 64),
           128 + ((c \div 64) % 64), 128 + (c % 64)>>

RECURSIVE Utf8EncodeFrom(_, _)
Utf8EncodeFrom(text, i) ==
    IF i > Len(text) THEN <<>>
    ELSE Utf8Bytes(text[i]) \o Utf8EncodeFrom(text, i + 1)

utf8_encode(text) ==
    IF \E i \in 1..Len(text) : IsSurrogate(text[i]) THEN EncodeError
    ELSE [ok |-> TRUE, data |-> Utf8EncodeFrom(text, 1)]

ascii_encode(text) ==
    IF \A i \in 1..Len(text) : text[i] < 128
      THEN [ok |-> TRUE, data |-> text]
      ELSE EncodeError

TableEncodable(table, c) == c < 128 \/ \E e \in table : e[1] = c
TableBytes(table, c) ==
    IF c < 128 THEN <<c>> ELSE (CHOOSE e \in table : e[1] = c)[2]

RECURSIVE TableEncodeFrom(_, _, _)
TableEncodeFrom(table, text, i) ==
    IF i > Len(text) THEN <<>>
    ELSE TableBytes(table, text[i]) \o TableEncodeFrom(table, text, i + 1)

TableEncode(table, text) ==
    IF \A i \in 1..Len(text) : TableEncodable(table, text[i])
      THEN [ok |-> TRUE, data |-> TableEncodeFrom(table, text, 1)]
      ELSE EncodeError

cp949_encode(text) == TableEncode(Cp949Table, text)
euc_kr_encode(text) == TableEncode(EucKrTable, text)

(***************************************************************************)
(* Text mode.  Reading with newline=None turns "\r\n" and "\r" into "\n";  *)
(* writing with newline=None turns "\n" into os.linesep.                   *)
(***************************************************************************)
RECURSIVE UniversalNewlines(_)
UniversalNewlines(text) ==
    IF text = <<>> THEN <<>>
    ELSE IF text[1] = 13
      THEN IF Len(text) >= 2 /\ text[2] = 10
             THEN <<10>> \o UniversalNewlines(SubSeq(text, 3, Len(text)))
             ELSE <<10>> \o UniversalNewlines(Tail(text))
    ELSE <<text[1]>> \o UniversalNewlines(Tail(text))

os_linesep(plat) == IF plat = "nt" THEN <<13, 10>> ELSE <<10>>

RECURSIVE WriteNewlines(_, _)
WriteNewlines(text, plat) ==
    IF text = <<>> THEN <<>>
    ELSE (IF text[1] = 10 THEN os_linesep(plat) ELSE <<text[1]>>)
            \o WriteNewlines(Tail(text), plat)

(***************************************************************************)
(* file_operations.py: messages.  A message is a text of the code; the     *)
(* model keeps which message it is (kind) and whether the file path is     *)
(* part of its text (path).  The code looks for the word "성공" in it: the  *)
(* two success messages contain it, and so does any message that embeds a  *)
(* path containing it.                                                     *)
(***************************************************************************)
Msg(kind, path) == [kind |-> kind, path |-> path]

HasSuccessWord(msg, marker) ==
    msg.kind \in {"write-ok", "read-ok", "create-ok"} \/ (msg.path /\ marker)

Step(s, e, d) == [step |-> s, enc |-> e, data |-> d]

validate_encoding(encoding) == encoding \in SUPPORTED_ENCODINGS

\* lines 173-198: the bytes each branch puts into the opened (truncated) file,
\* and the message when the encoder refuses the text
EncodedForWrite(content, encoding, plat) ==
    IF encoding = "utf-8-bom"
      THEN LET e == utf8_encode(content)
           IN  IF e.ok THEN [ok |-> TRUE, data |-> UTF8_BOM \o e.data, err |-> "none"]
               ELSE [ok |-> FALSE, data |-> UTF8_BOM, err |-> "unexpected"]
    ELSE IF encoding = "utf-8"
      THEN LET e == utf8_encode(content)
           IN  [ok |-> e.ok, data |-> e.data, err |-> "unexpected"]
    ELSE IF encoding = "cp949"
      THEN LET e == cp949_encode(WriteNewlines(content, plat))
           IN  [ok |-> e.ok, data |-> e.data, err |-> "encode-failed"]
    ELSE IF encoding = "euc-kr"
      THEN LET e == euc_kr_encode(WriteNewlines(content, plat))
           IN  [ok |-> e.ok, data |-> e.data, err |-> "encode-failed"]
    ELSE LET e == ascii_encode(WriteNewlines(content, plat))
         IN  [ok |-> e.ok, data |-> e.data, err |-> "encode-failed"]

\* lines 74-97: the directory is made when it is missing.  The messages
\* about a missing directory embed the directory's name.
ensure_directory(dr) ==
    IF dr.exists THEN [dir |-> dr, msg |-> "dir-exists"]
    ELSE IF dr.mk THEN [dir |-> [dr EXCEPT !.exists = TRUE], msg |-> "dir-created"]
    ELSE [dir |-> dr, msg |-> "dir-denied"]

\* lines 118 and 170: "실패" in dir_result or "권한" in dir_result
DirRefused(dr, dir_result) ==
    \/ dir_result = "dir-denied"
    \/ dir_result = "dir-created" /\ dr.word

\* lines 162-210.  md.w is the right to open the path for writing.  Opening
\* for writing creates or truncates.
write_file_with_content(f, md, dr, content, encoding, plat) ==
    IF ~validate_encoding(encoding)
      THEN [file |-> f, dir |-> dr, msg |-> Msg("unsupported-encoding", FALSE),
            steps |-> <<>>]
    ELSE LET ed == ensure_directory(dr)
         IN  IF DirRefused(dr, ed.msg)
               THEN [file |-> f, dir |-> ed.dir, msg |-> Msg(ed.msg, FALSE), steps |-> <<>>]
             ELSE IF ~md.w
               THEN [file |-> f, dir |-> ed.dir, msg |-> Msg("permission-denied", TRUE),
                     steps |-> <<>>]
             ELSE LET e == EncodedForWrite(content, encoding, plat)
                  IN  IF e.ok
                        THEN [file |-> File(e.data), dir |-> ed.dir,
                              msg |-> Msg("write-ok", TRUE),
                              steps |-> <<Step("open-w", encoding, <<>>),
                                          Step("write", encoding, e.data)>>]
                        ELSE [file |-> File(e.data), dir |-> ed.dir,
                              msg |-> Msg(e.err, FALSE),
                              steps |-> <<Step("open-w", encoding, <<>>)>>
                                          \o (IF e.data = <<>> THEN <<>>
                                              ELSE <<Step("write", encoding, e.data)>>)]

\* a reader that removes a second leading signature as well
StripBomTwice(data) ==
    LET once == IF StartsWith(data, UTF8_BOM)
                  THEN SubSeq(data, Len(UTF8_BOM) + 1, Len(data))
                  ELSE data
    IN  IF StartsWith(once, UTF8_BOM)
          THEN SubSeq(once, Len(UTF8_BOM) + 1, Len(once))
        ELSE IF Len(once) < Len(UTF8_BOM) /\ StartsWith(UTF8_BOM, once) THEN <<>>
        ELSE once

StripBom(data) ==
    IF StartsWith(data, UTF8_BOM) THEN SubSeq(data, Len(UTF8_BOM) + 1, Len(data))
    ELSE IF Len(data) < Len(UTF8_BOM) /\ StartsWith(UTF8_BOM, data) THEN <<>>
    ELSE data

\* lines 224-238: the codec each branch opens the file with
DecodedForRead(data, source_encoding) ==
    IF source_encoding = "utf-8-bom" THEN utf8_decode(StripBom(data))
    ELSE IF source_encoding = "utf-8" THEN utf8_decode(data)
    ELSE IF source_encoding = "cp949" THEN cp949_decode(data)
    ELSE IF source_encoding = "euc-kr" THEN euc_kr_decode(data)
    ELSE ascii_decode(data)

\* a reader that takes an encoding outside the registry for utf-8
read_file_with_encoding_lenient(f, md, source_encoding) ==
    IF ~f.exists
      THEN [content |-> <<>>, msg |-> Msg("not-found", TRUE)]
    ELSE IF ~md.r
      THEN [content |-> <<>>, msg |-> Msg("permission-denied", TRUE)]
    ELSE LET d == IF source_encoding \in SUPPORTED_ENCODINGS
                    THEN DecodedForRead(f.data, source_encoding)
                    ELSE utf8_decode(f.data)
         IN  IF d.ok
               THEN [content |-> UniversalNewlines(d.text), msg |-> Msg("read-ok", FALSE)]
               ELSE [content |-> <<>>, msg |-> Msg("decode-error", FALSE)]

\* lines 223-251
read_file_with_encoding(f, md, source_encoding) ==
    IF source_encoding \notin SUPPORTED_ENCODINGS
      THEN [content |-> <<>>, msg |-> Msg("unsupported-encoding", FALSE)]
    ELSE IF ~f.exists
      THEN [content |-> <<>>, msg |-> Msg("not-found", TRUE)]
    ELSE IF ~md.r
      THEN [content |-> <<>>, msg |-> Msg("permission-denied", TRUE)]
    ELSE LET d == DecodedForRead(f.data, source_encoding)
         IN  IF d.ok
               THEN [content |-> UniversalNewlines(d.text), msg |-> Msg("read-ok", FALSE)]
               ELSE [content |-> <<>>, msg |-> Msg("decode-error", FALSE)]

\* lines 99-148: an empty file in the encoding, the signature alone for utf-8-bom
\* lines 141-148: except PermissionError, and the handlers after it
CreateExcept(o) ==
    IF o.msg.kind = "raised"
      THEN [o EXCEPT !.msg = Msg("permission-denied", TRUE)]
      ELSE o

create_empty_file(f, md, dr, encoding) ==
  CreateExcept(
    IF ~validate_encoding(encoding)
      THEN [file |-> f, dir |-> dr, msg |-> Msg("unsupported-encoding", FALSE),
            steps |-> <<>>]
    ELSE LET ed == ensure_directory(dr)
         IN  IF DirRefused(dr, ed.msg)
               THEN [file |-> f, dir |-> ed.dir, msg |-> Msg(ed.msg, FALSE), steps |-> <<>>]
             ELSE IF ~md.w
               THEN [file |-> f, dir |-> ed.dir, msg |-> Msg("raised", FALSE),
                     steps |-> <<>>]
             ELSE LET data == IF encoding = "utf-8-bom" THEN UTF8_BOM ELSE <<>>
                  IN  [file |-> File(data), dir |-> ed.dir, msg |-> Msg("create-ok", TRUE),
                       steps |-> <<Step("open-w", encoding, <<>>)>>
                                   \o (IF data = <<>> THEN <<>>
                                       ELSE <<Step("write", encoding, data)>>)])

(***************************************************************************)
(* file_operations.py: convert_file_encoding                               *)
(***************************************************************************)
Outcome(f, b, md, kind, steps) ==
    [file |-> f, backup |-> b, mode |-> md, kind |-> kind, steps |-> steps,
     backup_msg |-> "none"]

\* line 310: the part of the completed message about the backup
BackupMsg(backup_flag) == IF backup_flag THEN "backup-path" ELSE "no-backup"

\* a conversion whose handler lets the exception through
ConvertExceptMissing(o) == o

\* lines 319-320: except Exception, around the whole body; "raised" stands
\* for an exception on its way out of the body
ConvertExcept(o) ==
    IF o.kind = "raised" THEN [o EXCEPT !.kind = "exception"] ELSE o

\* a conversion that never takes the file to be in the target encoding already
AlreadyNever(current_encoding, target_encoding) == FALSE

\* line 285
AlreadyInTarget(current_encoding, target_encoding) ==
    current_encoding = target_encoding

\* a backup step that keeps the backup file that is already there
MakeBackupKeepOld(f, b, md, backup_flag) ==
    IF ~backup_flag \/ b.exists
      THEN [ok |-> TRUE, backup |-> b, mode |-> md, steps |-> <<>>]
    ELSE IF md.r /\ md.bw
      THEN [ok |-> TRUE, backup |-> File(f.data),
            mode |-> [md EXCEPT !.bw = md.w],
            steps |-> <<Step("backup", "none", f.data)>>]
    ELSE [ok |-> FALSE, backup |-> b, mode |-> md, steps |-> <<>>]

\* lines 288-295: shutil.copy2 of the file onto <path>.backup; the copy takes
\* the permission bits of the file with it
MakeBackup(f, b, md, backup_flag) ==
    IF ~backup_flag
      THEN [ok |-> TRUE, backup |-> b, mode |-> md, steps |-> <<>>]
    ELSE IF md.r /\ md.bw
      THEN [ok |-> TRUE, backup |-> File(f.data),
            mode |-> [md EXCEPT !.bw = md.w],
            steps |-> <<Step("backup", "none", f.data)>>]
    ELSE [ok |-> FALSE, backup |-> b, mode |-> md, steps |-> <<>>]

\* a failure path that leaves the file as the failed write left it
RestoreBackupSkipped(f, b, md, backup_flag) ==
    [ok |-> TRUE, file |-> f, steps |-> <<>>]

\* lines 305-307: shutil.copy2 of the backup onto the file; ok = FALSE is the
\* copy raising
RestoreBackup(f, b, md, backup_flag) ==
    IF backup_flag /\ b.exists
      THEN IF md.w
             THEN [ok |-> TRUE, file |-> File(b.data),
                   steps |-> <<Step("restore", "none", b.data)>>]
             ELSE [ok |-> FALSE, file |-> f, steps |-> <<>>]
      ELSE [ok |-> TRUE, file |-> f, steps |-> <<>>]

\* a conversion that opens the file for writing before it has read it
ConvertContentOpenFirst(f, b, md, marker, current_encoding, target_encoding, backup_flag, plat, steps) ==
    LET rd == read_file_with_encoding(f, md, current_encoding)
        opened == IF md.w THEN File(<<>>) ELSE f
    IN  IF rd.content = <<>> /\ ~HasSuccessWord(rd.msg, marker)
          THEN Outcome(opened, b, md, "read-failed", steps)
          ELSE LET wr == write_file_with_content(f, md, DirPresent, rd.content,
                                                    target_encoding, plat)
               IN  IF ~HasSuccessWord(wr.msg, marker)
                     THEN LET rb == RestoreBackup(wr.file, b, md, backup_flag)
                          IN  IF rb.ok
                                THEN Outcome(rb.file, b, md, "write-failed", steps)
                                ELSE Outcome(wr.file, b, md, "raised", steps)
                     ELSE Outcome(wr.file, b, md, "completed", steps)

\* lines 297-317: read in the detected encoding, write in the target encoding
ConvertContent(f, b, md, marker, current_encoding, target_encoding, backup_flag, plat, steps) ==
    LET rd == read_file_with_encoding(f, md, current_encoding)
    IN  IF rd.content = <<>> /\ ~HasSuccessWord(rd.msg, marker)
          THEN Outcome(f, b, md, "read-failed", steps)
          ELSE LET wr == write_file_with_content(f, md, DirPresent, rd.content,
                                                    target_encoding, plat)
                   s2 == steps
                           \o (IF rd.msg.kind = "read-ok"
                                 THEN <<Step("decode", current_encoding, rd.content)>>
                                 ELSE <<>>)
                           \o wr.steps
               IN  IF ~HasSuccessWord(wr.msg, marker)
                     THEN LET rb == RestoreBackup(wr.file, b, md, backup_flag)
                          IN  IF rb.ok
                                THEN Outcome(rb.file, b, md, "write-failed", s2 \o rb.steps)
                                ELSE Outcome(wr.file, b, md, "raised", s2)
                     ELSE [Outcome(wr.file, b, md, "completed", s2)
                             EXCEPT !.backup_msg = BackupMsg(backup_flag)]

\* a conversion that decodes the file with the requested target encoding
convert_decoding_with_target(f, b, md, marker, hasCn, hasChardet, lib, target_encoding, backup_flag, plat) ==
  ConvertExcept(
    IF ~f.exists
      THEN Outcome(f, b, md, "not-found", <<>>)
    ELSE IF ~validate_encoding(target_encoding)
      THEN Outcome(f, b, md, "unsupported-encoding", <<>>)
    ELSE LET detection == detect_file_encoding(f, md, DEFAULT_MAX_BYTES,
                                               hasCn, hasChardet, lib).res
         IN  IF detection.error # "no"
               THEN Outcome(f, b, md, "detect-failed", <<>>)
               ELSE LET current_encoding == detection.encoding
                        s1 == <<Step("detect", current_encoding, <<>>)>>
                    IN  IF AlreadyInTarget(current_encoding, target_encoding)
                          THEN Outcome(f, b, md, "already", s1)
                          ELSE LET mb == MakeBackup(f, b, md, backup_flag)
                               IN  IF ~mb.ok
                                     THEN Outcome(f, b, md, "backup-failed", s1)
                                     ELSE ConvertContent(f, mb.backup, mb.mode, marker,
                                                         target_encoding, target_encoding,
                                                         backup_flag, plat, s1 \o mb.steps))

\* lines 265-320
convert_file_encoding(f, b, md, marker, hasCn, hasChardet, lib, target_encoding, backup_flag, plat) ==
  ConvertExcept(
    IF ~f.exists
      THEN Outcome(f, b, md, "not-found", <<>>)
    ELSE IF ~validate_encoding(target_encoding)
      THEN Outcome(f, b, md, "unsupported-encoding", <<>>)
    ELSE LET detection == detect_file_encoding(f, md, DEFAULT_MAX_BYTES,
                                               hasCn, hasChardet, lib).res
         IN  IF detection.error # "no"
               THEN Outcome(f, b, md, "detect-failed", <<>>)
               ELSE LET current_encoding == detection.encoding
                        s1 == <<Step("detect", current_encoding, <<>>)>>
                    IN  IF AlreadyInTarget(current_encoding, target_encoding)
                          THEN Outcome(f, b, md, "already", s1)
                          ELSE LET mb == MakeBackup(f, b, md, backup_flag)
                               IN  IF ~mb.ok
                                     THEN Outcome(f, b, md, "backup-failed", s1)
                                     ELSE ConvertContent(f, mb.backup, mb.mode, marker,
                                                         current_encoding, target_encoding,
                                                         backup_flag, plat, s1 \o mb.steps))

(***************************************************************************)
(* The conversion specification: one file, possibly with an older backup   *)
(* beside it, and one call of convert_file_encoding.                       *)
(***************************************************************************)
MaxLen == 3

\* bytes of the files: 'a', and the bytes of the UTF-8 signature, which also
\* pair up into CP949 characters and into other UTF-8 characters
ConvertBytes == {97, 187, 191, 239}

\* UTF-16 LE "a" with its signature; "a", CR LF
ConvertSamples == {<<255, 254, 97, 0>>, <<97, 13, 10>>}

OldBackup == File(<<111, 108, 100>>)

Modes == [r : BOOLEAN, w : BOOLEAN, bw : BOOLEAN]
Platforms == {"posix", "nt"}

Init ==
    /\ file \in {NoFile}
                 \cup {File(d) : d \in SeqsUpTo(ConvertBytes, MaxLen) \cup ConvertSamples}
    /\ backup \in {NoFile, OldBackup}
    /\ dir = DirPresent
    /\ mode \in Modes
    /\ pathMarker \in BOOLEAN
    /\ HAS_CHARSET_NORMALIZER \in BOOLEAN
    /\ HAS_CHARDET = FALSE
    /\ platform = "posix"
    /\ Idle

Targets == SUPPORTED_ENCODINGS \cup {"utf-16"}

\* what a library detector can name as the current encoding of the file
ConfidentLibChoices ==
    IF HAS_CHARSET_NORMALIZER \/ HAS_CHARDET
      THEN {NoAnswer} \cup [encoding : LibNames, confidence : {100}]
      ELSE {NoAnswer}

Convert(target_encoding, backup_flag, lib) ==
    /\ call.op = "none"
    /\ LET o == convert_file_encoding(file, backup, mode, pathMarker,
                                      HAS_CHARSET_NORMALIZER, HAS_CHARDET, lib,
                                      target_encoding, backup_flag, platform)
       IN  /\ call' = [op |-> "convert", target |-> target_encoding,
                       backup |-> backup_flag, lib |-> lib]
           /\ pre' = [file |-> file, backup |-> backup]
           /\ file' = o.file
           /\ backup' = o.backup
           /\ mode' = o.mode
           /\ ret' = [kind |-> o.kind, backup_msg |-> o.backup_msg]
           /\ log' = o.steps
    /\ UNCHANGED <<pathMarker, HAS_CHARSET_NORMALIZER, HAS_CHARDET, platform, dir>>

Next ==
    \E target_encoding \in Targets, backup_flag \in BOOLEAN, lib \in ConfidentLibChoices :
        Convert(target_encoding, backup_flag, lib)

Spec == Init /\ [][Next]_vars

(***************************************************************************)
(* The file specification: one path, and one call of create_empty_file,    *)
(* write_file_with_content or read_file_with_encoding; a read may follow a *)
(* write.                                                                  *)
(***************************************************************************)
MaxText == 2

\* 'a', LF, CR, U+FEFF, U+1F600, '뼁' (KS X 1001), '팤' (CP949 only), a lone
\* surrogate
TextChars == {97, 10, 13, 65279, 128512, 48897, 54052, 55296}
Texts == SeqsUpTo(TextChars, MaxText)

\* a missing directory, named with or without one of the words, that may
\* or may not be created
MissingDirs == [exists : {FALSE}, word : BOOLEAN, mk : BOOLEAN]

InitFile ==
    /\ backup = NoFile
    /\ HAS_CHARSET_NORMALIZER = FALSE
    /\ HAS_CHARDET = FALSE
    /\ \/ /\ file \in {NoFile, OldBackup}
          /\ dir = DirPresent
          /\ mode \in {md \in Modes : md.bw}
          /\ pathMarker = FALSE
          /\ platform \in Platforms
       \/ /\ file = NoFile
          /\ dir \in MissingDirs
          /\ mode = [r |-> TRUE, w |-> TRUE, bw |-> TRUE]
          /\ pathMarker = FALSE
          /\ platform = "posix"
    /\ Idle

CreateEmpty(encoding) ==
    /\ call.op = "none"
    /\ LET o == create_empty_file(file, mode, dir, encoding)
       IN  /\ call' = [op |-> "create", encoding |-> encoding]
           /\ pre' = [file |-> file, backup |-> backup]
           /\ file' = o.file
           /\ dir' = o.dir
           /\ ret' = [kind |-> o.msg.kind, success |-> HasSuccessWord(o.msg, pathMarker),
                      content |-> <<>>]
           /\ log' = o.steps
    /\ UNCHANGED <<backup, mode, pathMarker, HAS_CHARSET_NORMALIZER, HAS_CHARDET, platform>>

Write(content, encoding) ==
    /\ call.op = "none"
    /\ LET o == write_file_with_content(file, mode, dir, content, encoding, platform)
       IN  /\ call' = [op |-> "write", encoding |-> encoding, content |-> content]
           /\ pre' = [file |-> file, backup |-> backup]
           /\ file' = o.file
           /\ dir' = o.dir
           /\ ret' = [kind |-> o.msg.kind, success |-> HasSuccessWord(o.msg, pathMarker),
                      content |-> <<>>]
           /\ log' = o.steps
    /\ UNCHANGED <<backup, mode, pathMarker, HAS_CHARSET_NORMALIZER, HAS_CHARDET, platform>>

Read(source_encoding) ==
    /\ call.op \in {"none", "write"}
    /\ LET o == read_file_with_encoding(file, mode, source_encoding)
       IN  /\ call' = [op |-> "read", encoding |-> source_encoding, after |-> call]
           /\ ret' = [kind |-> o.msg.kind, success |-> HasSuccessWord(o.msg, pathMarker),
                      content |-> o.content]
    /\ UNCHANGED <<file, backup, pre, log, env>>

NextFile ==
    \/ \E encoding \in Targets : CreateEmpty(encoding)
    \/ \E content \in Texts, encoding \in Targets : Write(content, encoding)
    \/ \E source_encoding \in Targets : Read(source_encoding)

SpecFile == InitFile /\ [][NextFile]_vars

(***************************************************************************)
(* The calls specification: one call of detect_file_encoding, of           *)
(* create_empty_file or of convert_file_encoding, on any of the files and  *)
(* in any of the environments of the two specifications above.             *)
(***************************************************************************)
InitCalls == Init \/ InitFile

\* a window that f.read refuses, and the default one
CallWindows == {-2, DEFAULT_MAX_BYTES}

NextCalls ==
    \/ \E max_bytes \in CallWindows, lib \in ConfidentLibChoices : Detect(max_bytes, lib)
    \/ \E encoding \in Targets : CreateEmpty(encoding)
    \/ \E target_encoding \in Targets, backup_flag \in BOOLEAN, lib \in ConfidentLibChoices :
           Convert(target_encoding, backup_flag, lib)

SpecCalls == InitCalls /\ [][NextCalls]_vars

(***************************************************************************)
(* Properties of conversion, checked under Spec, and of writing, checked   *)
(* under SpecFile.                                                         *)
(***************************************************************************)
ConvertDone == call.op = "convert"

FailureKinds ==
    {"not-found", "unsupported-encoding", "detect-failed", "backup-failed",
     "read-failed", "write-failed", "exception"}

Logged(s) == \E i \in 1..Len(log) : log[i].step = s

NarrowEncodings == {"cp949", "euc-kr", "ascii"}

\* C1: every call convert_file_encoding(path, target, backup=True) that
\* returns a failure outcome, at whatever step it fails, leaves the file
\* as it was before the call (same existence, same bytes).
C1_FailureKeepsBytes ==
    (ConvertDone /\ call.backup /\ ret.kind \in FailureKinds) => file = pre.file

\* C1 happens: the target codec refuses the text after the file was opened
\* for writing (and so truncated), and the file is copied back from the backup.
C1_Witness ==
    /\ ConvertDone /\ call.backup
    /\ ret.kind = "write-failed"
    /\ Logged("open-w") /\ Logged("restore")
    /\ pre.file.data # <<>>
    /\ file = pre.file

\* C2: when write_file_with_content(path, text, E), E one of cp949, euc-kr
\* and ascii, fails because a character of text is outside E, the file is
\* as before the call: unchanged if it existed, still absent if it did not.
C2_FailedWriteLeavesFile ==
    (call.op = "write" /\ call.encoding \in NarrowEncodings /\ ret.kind = "encode-failed")
        => file = pre.file

\* C3: convert_file_encoding to cp949, euc-kr or ascii, on a file whose
\* decoded text has a character outside the target codec, returns a failure
\* outcome and writes no bytes of any version of the text to the file.
C3_UnencodableAlwaysFails ==
    (/\ ConvertDone
     /\ call.target \in NarrowEncodings
     /\ \E i \in 1..Len(log) :
            /\ log[i].step = "decode"
            /\ ~EncodedForWrite(log[i].data, call.target, platform).ok)
        => (ret.kind \in FailureKinds /\ ~Logged("write"))

\* C4: when the encoding that the call detects equals the requested target,
\* for both values of the backup flag the file is unchanged and never opened
\* for writing, the backup file is neither created nor modified, and the
\* outcome is the already-in-target message.
C4_AlreadyInTargetIsNoOp ==
    (/\ ConvertDone
     /\ Len(log) >= 1
     /\ log[1].step = "detect"
     /\ log[1].enc = call.target)
        => /\ ret.kind = "already"
           /\ file = pre.file
           /\ backup = pre.backup
           /\ Len(log) = 1

\* C4 happens: a non-empty file already in the target encoding, with the
\* backup flag set and an older backup beside it.
C4_Witness ==
    /\ ConvertDone /\ call.backup
    /\ ret.kind = "already"
    /\ pre.file.data # <<>>
    /\ pre.backup = OldBackup
    /\ backup = OldBackup
    /\ file = pre.file

(***************************************************************************)
(* Properties of detection, checked under SpecDetect.                      *)
(***************************************************************************)

\* the signature table as the specification gives it: <<signature, encoding>>
SignatureTable ==
    { <<UTF8_BOM, "utf-8-bom">>, <<UTF16_LE_BOM, "utf-16-le">>,
      <<UTF16_BE_BOM, "utf-16-be">>, <<UTF32_LE_BOM, "utf-32-le">>,
      <<UTF32_BE_BOM, "utf-32-be">> }

Matching(data) == {e \in SignatureTable : StartsWith(data, e[1])}
Longest(es) == CHOOSE e \in es : \A f \in es : Len(f[1]) <= Len(e[1])

DetectDone == call.op = "detect"
DetectedFile == DetectDone /\ pre.file.exists /\ Len(pre.file.data) > 0 /\ mode.r
Analysed == ReadBytes(pre.file.data, call.max_bytes)
LibraryMethods == {"charset-normalizer", "chardet"}
FallbackMethods ==
    {"fallback-ascii", "fallback-utf8", "fallback-cp949", "fallback-euc-kr",
     "fallback-latin1", "fallback-unknown"}
IsBomResult(enc) ==
    /\ ret.error = "no"
    /\ ret.confidence = 100
    /\ ret.has_bom
    /\ ret.method = "bom-detection"
    /\ ret.encoding = enc

C6_LongestFullPrefix ==
    (DetectedFile /\ ReadableSize(call.max_bytes)) =>
        /\ ret.has_bom <=> Matching(Analysed) # {}
        /\ ret.has_bom => ret.encoding = Longest(Matching(Analysed))[2]
        /\ StartsWith(Analysed, <<255, 254, 0, 0>>) => ret.encoding = "utf-32-le"
        /\ Analysed = <<239, 187>> => ~ret.has_bom
        /\ Analysed = <<255, 254>> => ret.has_bom /\ ret.encoding = "utf-16-le"
        /\ Analysed = <<239, 187, 191>> => ret.has_bom /\ ret.encoding = "utf-8-bom"

C6_Witness ==
    /\ DetectedFile
    /\ Analysed = <<255, 254, 0, 0>>
    /\ ret.has_bom
    /\ ret.encoding = "utf-32-le"

\* C7: an existing file of zero length is reported as "empty" with
\* confidence 100 and no BOM by the empty-file rule, for every window, and
\* no detector is consulted.
C7_EmptyFile ==
    (DetectDone /\ pre.file.exists /\ Len(pre.file.data) = 0) =>
        /\ ret.error = "no"
        /\ ret.encoding = "empty"
        /\ ret.confidence = 100
        /\ ~ret.has_bom
        /\ ret.method = "empty-file"
        /\ log = <<>>

C7_Witness ==
    /\ DetectDone
    /\ pre.file.exists
    /\ Len(pre.file.data) = 0
    /\ call.max_bytes = 1
    /\ HAS_CHARDET
    /\ ret.encoding = "empty"

AsciiWithoutBom ==
    /\ DetectedFile
    /\ ReadableSize(call.max_bytes)
    /\ Matching(pre.file.data) = {}
    /\ \A i \in 1..Len(Analysed) : Analysed[i] < 128

\* C8, as stated: a non-empty file without BOM whose analysed bytes are all
\* below 0x80 is reported as ascii with confidence 95, whatever the library
\* detectors are and answer.
C8_AsciiAlways95 ==
    AsciiWithoutBom => ret.encoding = "ascii" /\ ret.confidence = 95

\* C8, amended: the same when no library detector is available or the one
\* consulted answers with a confidence below 60.
C8_AsciiWhenLibraryBelow60 ==
    (AsciiWithoutBom
       /\ (~(HAS_CHARSET_NORMALIZER \/ HAS_CHARDET) \/ call.lib.confidence < 60))
        => ret.encoding = "ascii" /\ ret.confidence = 95 /\ ret.method = "fallback-ascii"

C8_Witness ==
    /\ AsciiWithoutBom
    /\ pre.file.data = <<104, 101, 108, 108, 111>>
    /\ HAS_CHARDET
    /\ call.lib = [encoding |-> "utf_8", confidence |-> 59]
    /\ ret.encoding = "ascii"
    /\ ret.confidence = 95

\* C9, as stated: confidence is an integer in 0..100 and is 100 only for a
\* BOM match or an empty file.
C9_HundredOnlyBomOrEmpty ==
    DetectDone =>
        /\ ret.confidence \in 0..100
        /\ ret.confidence = 100 => ret.method \in {"bom-detection", "empty-file"}

\* C9, amended: confidence is an integer in 0..100; it is 100 only for a BOM
\* match, an empty file, or a library detector that itself answers 100; a
\* fallback result carries at most 95.
C9_HundredNeverFromFallback ==
    DetectDone =>
        /\ ret.confidence \in 0..100
        /\ ret.confidence = 100 =>
              \/ ret.method \in {"bom-detection", "empty-file"}
              \/ ret.method \in LibraryMethods /\ call.lib.confidence = 100
        /\ ret.method \in FallbackMethods => ret.confidence <= 95

C9_Witness ==
    /\ DetectedFile
    /\ pre.file.data = <<104, 101, 108, 108, 111>>
    /\ ret.method = "chardet"
    /\ ret.encoding = "ascii"
    /\ ret.confidence = 100

\* C10, as stated: a result without error names one of the five registry
\* identifiers, "empty" or "unknown".
C10_EncodingInRegistry ==
    (DetectDone /\ ret.error = "no")
        => ret.encoding \in SUPPORTED_ENCODINGS \cup {"empty", "unknown"}

\* C10, amended: it names one of those, one of the four UTF-16/UTF-32
\* identifiers of the signature table, "iso-8859-1", or, when a library
\* detector produced the result, the name that library reported.
C10_EncodingInDetectorNames ==
    (DetectDone /\ ret.error = "no") =>
        IF ret.method \in LibraryMethods
          THEN ret.encoding = call.lib.encoding /\ ret.encoding # "None"
          ELSE ret.encoding \in SUPPORTED_ENCODINGS \cup {"empty", "unknown"}
                 \cup {"utf-16-le", "utf-16-be", "utf-32-le", "utf-32-be", "iso-8859-1"}

C10_Witness ==
    /\ DetectedFile
    /\ ret.error = "no"
    /\ ret.method = "fallback-latin1"
    /\ ret.encoding = "iso-8859-1"

(***************************************************************************)
(* Properties of the calls, checked under SpecCalls.                       *)
(***************************************************************************)
\* C11: every call of detect_file_encoding, create_empty_file and
\* convert_file_encoding returns a result value (a result dict, a message)
\* and lets no exception through to its caller, whatever fails: a missing
\* file, an unsupported encoding, a denied permission, a decode or encode
\* failure, a refused read size, the rollback copy.
C11_NoExceptionEscapes ==
    /\ call.op = "detect" => ret.error \in {"no", "not-found", "exception"}
    /\ call.op = "create" =>
          ret.kind \in {"create-ok", "unsupported-encoding", "permission-denied",
                        "dir-created", "dir-denied"}
    /\ call.op = "convert" => ret.kind \in FailureKinds \cup {"already", "completed"}

\* C11 happens: the write is refused, the rollback copy raises, and the call
\* returns the message of its outer handler.
C11_Witness ==
    /\ ConvertDone /\ call.backup
    /\ backup.exists
    /\ ~mode.w
    /\ Logged("decode")
    /\ ret.kind = "exception"

(***************************************************************************)
(* Further properties of conversion, checked under Spec.                   *)
(***************************************************************************)
EarlyFailureKinds ==
    {"not-found", "unsupported-encoding", "detect-failed", "backup-failed", "read-failed"}

\* C12: a convert_file_encoding call that fails before the write step
\* (missing file, unsupported target, detection error, failed backup copy,
\* decode failure) leaves the file as it was and never opens it for writing;
\* for a missing file or an unsupported target the backup file is neither
\* created nor modified.
C12_EarlyFailureKeepsFile ==
    (ConvertDone /\ ret.kind \in EarlyFailureKinds) =>
        /\ file = pre.file
        /\ ~Logged("open-w")
        /\ ret.kind \in {"not-found", "unsupported-encoding"} =>
              (backup = pre.backup /\ ~Logged("backup"))

\* C12 happens: the backup copy is made, then the bytes do not decode in the
\* detected encoding and the call fails with the file untouched.
C12_Witness ==
    /\ ConvertDone /\ call.backup
    /\ ret.kind = "read-failed"
    /\ Logged("backup")
    /\ pre.file.data # <<>>
    /\ mode.w
    /\ file = pre.file

\* C13: after a convert_file_encoding with backup=True that returns the
\* conversion-completed outcome, the backup file holds the bytes the file
\* had before the call, whatever the backup file held earlier, and the
\* outcome names the backup path; with backup=False the backup file is as
\* before and the outcome says there is no backup.
C13_BackupHoldsOriginal ==
    (ConvertDone /\ ret.kind = "completed") =>
        IF call.backup
          THEN backup = File(pre.file.data) /\ ret.backup_msg = "backup-path"
          ELSE backup = pre.backup /\ ret.backup_msg = "no-backup"

\* C13 happens: a completed conversion that rewrote the file, with an older
\* backup replaced by the bytes of the file before the call.
C13_Witness ==
    /\ ConvertDone /\ call.backup
    /\ ret.kind = "completed"
    /\ pre.backup = OldBackup
    /\ backup = File(pre.file.data)
    /\ backup # OldBackup
    /\ file # pre.file
    /\ Logged("write")

(***************************************************************************)
(* Further properties of writing and reading, checked under SpecFile.      *)
(***************************************************************************)
ReadBack ==
    /\ call.op = "read"
    /\ call.after.op = "write"
    /\ mode.r
    /\ Logged("write")

\* C14: for every supported encoding E and every text that E can encode
\* (texts with carriage returns and texts starting with U+FEFF included),
\* a write_file_with_content of the text in E followed by a
\* read_file_with_encoding in E returns exactly that text.
C14_RoundTrip ==
    (/\ ReadBack
     /\ call.encoding = call.after.encoding
     /\ call.encoding \in SUPPORTED_ENCODINGS
     /\ EncodedForWrite(call.after.content, call.encoding, platform).ok)
        => (ret.kind = "read-ok" /\ ret.content = call.after.content)

CreatedData(encoding) == IF encoding = "utf-8-bom" THEN UTF8_BOM ELSE <<>>

\* C15: create_empty_file(path, E) with a supported E, on a path that may be
\* written and in a directory that exists or can be made, leaves at path a
\* file of exactly the bytes EF BB BF when E is utf-8-bom and of no bytes for
\* every other supported E, whether the path was fresh or held a file.
C15_CreateLeavesEmptyFile ==
    (/\ call.op = "create"
     /\ call.encoding \in SUPPORTED_ENCODINGS
     /\ mode.w
     /\ dir.exists)
        => file = File(CreatedData(call.encoding))

(***************************************************************************)
(* Further properties of detection, checked under SpecDetect.              *)
(***************************************************************************)

WithoutBom ==
    /\ DetectedFile
    /\ ReadableSize(call.max_bytes)
    /\ Matching(pre.file.data) = {}

LibraryAvailable == HAS_CHARSET_NORMALIZER \/ HAS_CHARDET
LibraryMethod == IF HAS_CHARSET_NORMALIZER THEN "charset-normalizer" ELSE "chardet"
ProducedNothing == ~LibraryAvailable \/ call.lib.encoding = "None"
IsResult(r) ==
    /\ ret.error = "no"
    /\ ~ret.has_bom
    /\ ret.encoding = r.encoding
    /\ ret.confidence = r.confidence
    /\ ret.method = r.method

\* C16: for a non-empty file without BOM the result is the library result L
\* when L has confidence >= 60, even when the fallback result F has more;
\* otherwise it is F when the library produced nothing or F's confidence is
\* strictly greater than L's, and L in the remaining case.  The encoding of
\* the result is never None.
C16_LibraryOrFallback ==
    WithoutBom =>
        LET L == [encoding |-> call.lib.encoding, confidence |-> call.lib.confidence,
                  method |-> LibraryMethod]
            F == fallback_encoding_detection(Analysed)
        IN  /\ ret.encoding # "None"
            /\ IF ~ProducedNothing /\ L.confidence >= 60 THEN IsResult(L)
               ELSE IF ProducedNothing \/ F.confidence > L.confidence THEN IsResult(F)
               ELSE IsResult(L)

\* the library's 60 wins over the fallback's 95
C16_Witness ==
    /\ WithoutBom
    /\ pre.file.data = <<104, 101, 108, 108, 111>>
    /\ HAS_CHARSET_NORMALIZER
    /\ call.lib = [encoding |-> "utf_8", confidence |-> 60]
    /\ fallback_encoding_detection(Analysed).confidence = 95
    /\ ret.encoding = "utf_8"
    /\ ret.confidence = 60
    /\ ret.method = "charset-normalizer"

Ran(detector) == \E i \in 1..Len(log) : log[i] = detector
LibraryRuns == Cardinality({i \in 1..Len(log) : log[i] \in LibraryMethods})

\* C17: one call runs at most one library detector: charset-normalizer when
\* it is available, chardet only when charset-normalizer is unavailable and
\* chardet is available; chardet never runs in a call where
\* charset-normalizer ran, whatever charset-normalizer answered, and no
\* library detector runs when a BOM matched or the file is empty.
C17_AtMostOneLibrary ==
    DetectDone =>
        /\ LibraryRuns <= 1
        /\ Ran("charset-normalizer") => HAS_CHARSET_NORMALIZER
        /\ Ran("chardet") => (~HAS_CHARSET_NORMALIZER /\ HAS_CHARDET)
        /\ ~(Ran("charset-normalizer") /\ Ran("chardet"))
        /\ (ret.error = "no" /\ ret.method \in {"bom-detection", "empty-file"})
              => LibraryRuns = 0
        /\ (ret.error = "no" /\ ret.method \notin {"bom-detection", "empty-file"})
              => /\ HAS_CHARSET_NORMALIZER => Ran("charset-normalizer")
                 /\ (~HAS_CHARSET_NORMALIZER /\ HAS_CHARDET) => Ran("chardet")

\* both libraries installed, charset-normalizer gives no encoding
C17_Witness ==
    /\ WithoutBom
    /\ HAS_CHARSET_NORMALIZER
    /\ HAS_CHARDET
    /\ call.lib = NoAnswer
    /\ log = <<"bom", "charset-normalizer", "fallback">>
    /\ ret.method \in FallbackMethods

Candidates == <<"ascii", "utf-8", "cp949", "euc-kr", "iso-8859-1">>
CandidateDecodes(k, data) ==
    CASE k = 1 -> ascii_decode(data).ok /\ (\A i \in 1..Len(data) : data[i] < 128)
      [] k = 2 -> utf8_decode(data).ok
      [] k = 3 -> cp949_decode(data).ok
      [] k = 4 -> euc_kr_decode(data).ok
      [] k = 5 -> latin1_decode(data).ok
CandidateConfidence(k, data) ==
    CASE k = 1 -> 95
      [] k = 2 -> IF \E i \in 1..Len(utf8_decode(data).text) :
                        \/ utf8_decode(data).text[i] \in 44032..55215
                        \/ utf8_decode(data).text[i] \in 19968..40959
                    THEN 90 ELSE 85
      [] k = 3 -> 75
      [] k = 4 -> 70
      [] k = 5 -> 40

\* C18: the fallback returns the first candidate that strictly decodes the
\* whole window, in the order ascii (95, every byte below 0x80), utf-8 (90
\* with a code point in U+AC00..U+D7AF or U+4E00..U+9FFF, else 85), cp949
\* (75), euc-kr (70), iso-8859-1 (40), and "unknown" with 0 only if none
\* decodes; a later candidate is never returned when an earlier one decodes.
C18_FirstDecodingCandidate ==
    (DetectedFile /\ ReadableSize(call.max_bytes)) =>
        LET F == fallback_encoding_detection(Analysed)
            decoding == {k \in 1..Len(Candidates) : CandidateDecodes(k, Analysed)}
        IN  /\ decoding = {} => (F.encoding = "unknown" /\ F.confidence = 0)
            /\ decoding # {} =>
                  LET first == CHOOSE k \in decoding : \A j \in decoding : k <= j
                  IN  /\ F.encoding = Candidates[first]
                      /\ F.confidence = CandidateConfidence(first, Analysed)
            /\ ret.method \in FallbackMethods =>
                  (ret.encoding = F.encoding /\ ret.confidence = F.confidence)

\* bytes that cp949 and euc-kr both decode and utf-8 does not: cp949 is
\* returned
C18_Witness ==
    /\ DetectedFile
    /\ ReadableSize(call.max_bytes)
    /\ ~utf8_decode(Analysed).ok
    /\ cp949_decode(Analysed).ok
    /\ euc_kr_decode(Analysed).ok
    /\ ret.method = "fallback-cp949"
    /\ ret.encoding = "cp949"
    /\ ret.confidence = 75

AfterSignature(data) == SubSeq(data, Len(UTF8_BOM) + 1, Len(data))
\* the text of well-formed UTF-8 bytes, as a read with utf-8 returns it
TextOf(data) == UniversalNewlines(utf8_decode(data).text)

\* C19: a successful write with utf-8-bom leaves the bytes EF BB BF followed
\* by the UTF-8 bytes of the text, also when the text starts with U+FEFF (the
\* file then starts with the signature twice); a successful read with
\* utf-8-bom returns the text of the bytes after one leading signature when
\* the file starts with one, and the text of all the bytes, as a read with
\* utf-8 returns it, when the bytes are UTF-8 without signature.
C19_SignatureOnceEachWay ==
    /\ (call.op = "write" /\ call.encoding = "utf-8-bom" /\ ret.kind = "write-ok") =>
          /\ utf8_encode(call.content).ok
          /\ file.data = UTF8_BOM \o utf8_encode(call.content).data
          /\ (call.content # <<>> /\ call.content[1] = 65279) =>
                StartsWith(file.data, UTF8_BOM \o UTF8_BOM)
    /\ (call.op = "write" /\ call.encoding = "utf-8-bom" /\ mode.w /\ dir.exists
          /\ ~dir.word /\ utf8_encode(call.content).ok) => ret.kind = "write-ok"
    /\ (call.op = "read" /\ call.encoding = "utf-8-bom" /\ file.exists /\ mode.r) =>
          IF StartsWith(file.data, UTF8_BOM)
            THEN IF utf8_decode(AfterSignature(file.data)).ok
                   THEN /\ ret.kind = "read-ok"
                        /\ ret.content = TextOf(AfterSignature(file.data))
                   ELSE ret.kind = "decode-error"
            ELSE utf8_decode(file.data).ok =>
                   (ret.kind = "read-ok" /\ ret.content = TextOf(file.data))

\* a text starting with U+FEFF: the signature twice in the file, and the
\* text back with its own U+FEFF
C19_Witness ==
    /\ ReadBack
    /\ call.encoding = "utf-8-bom"
    /\ call.after.encoding = "utf-8-bom"
    /\ call.after.content = <<65279, 97>>
    /\ file.data = UTF8_BOM \o UTF8_BOM \o <<97>>
    /\ ret.kind = "read-ok"
    /\ ret.content = <<65279, 97>>

StepsAt(s) == {i \in 1..Len(log) : log[i].step = s}
Before(s, t) == \A i \in StepsAt(s), j \in StepsAt(t) : i < j

\* C20: in every convert_file_encoding the steps occur in the order detect,
\* backup (only when requested), decode, write: the path is opened for
\* writing only after the backup copy was made (when backup is requested)
\* and after the decode in the detected encoding succeeded, and the decode
\* uses the detected encoding, never the requested target.
C20_StepsInOrder ==
    ConvertDone =>
        /\ Before("detect", "backup") /\ Before("detect", "decode")
        /\ Before("backup", "decode") /\ Before("backup", "open-w")
        /\ Before("decode", "open-w") /\ Before("open-w", "restore")
        /\ Logged("backup") => (call.backup /\ Logged("detect"))
        /\ Logged("decode") => Logged("detect")
        /\ Logged("open-w") => (Logged("decode") /\ (call.backup => Logged("backup")))
        /\ (file # pre.file) => Logged("open-w")
        /\ \A i \in StepsAt("decode") :
              /\ log[i].enc # call.target
              /\ \A j \in StepsAt("detect") : log[i].enc = log[j].enc

\* a conversion with backup that went through all four steps
C20_Witness ==
    /\ ConvertDone /\ call.backup
    /\ ret.kind = "completed"
    /\ Len(log) >= 4
    /\ log[1].step = "detect" /\ log[2].step = "backup"
    /\ log[3].step = "decode" /\ log[4].step = "open-w"
    /\ log[3].enc = log[1].enc
    /\ log[3].enc # call.target
    /\ file # pre.file

(***************************************************************************)
(* The repeated conversion: a completed convert_file_encoding with backup, *)
(* and the same call once more.                                            *)
(***************************************************************************)
\* the first call on any file, or the second call with the target of a
\* first call that asked for a backup and was completed
ConvertNth(target_encoding, backup_flag, lib) ==
    /\ \/ call.op = "none"
       \/ /\ call.op = "convert"
          /\ call.nth = 1
          /\ call.backup
          /\ ret.kind = "completed"
          /\ target_encoding = call.target
          /\ backup_flag
    /\ LET o == convert_file_encoding(file, backup, mode, pathMarker,
                                      HAS_CHARSET_NORMALIZER, HAS_CHARDET, lib,
                                      target_encoding, backup_flag, platform)
       IN  /\ call' = [op |-> "convert", target |-> target_encoding,
                       backup |-> backup_flag, lib |-> lib,
                       nth |-> IF call.op = "none" THEN 1 ELSE 2,
                       original |-> IF call.op = "none" THEN file ELSE pre.file]
           /\ pre' = [file |-> file, backup |-> backup]
           /\ file' = o.file
           /\ backup' = o.backup
           /\ mode' = o.mode
           /\ ret' = [kind |-> o.kind, backup_msg |-> o.backup_msg]
           /\ log' = o.steps
    /\ UNCHANGED <<pathMarker, HAS_CHARSET_NORMALIZER, HAS_CHARDET, platform, dir>>

NextTwice ==
    \E target_encoding \in Targets, backup_flag \in BOOLEAN, lib \in ConfidentLibChoices :
        ConvertNth(target_encoding, backup_flag, lib)

SpecTwice == Init /\ [][NextTwice]_vars

(***************************************************************************)
(* Properties of the repeated conversion, checked under SpecTwice.         *)
(***************************************************************************)
\* C21: after a completed convert_file_encoding(path, T, backup=True), the
\* same call once more is a no-op for every supported T and every content:
\* it returns the already-in-target outcome and changes neither the file nor
\* the backup, which still holds the original file.  Stated for paths
\* without the marker word, where "completed" means the file was written.
C21_SecondConvertIsNoOp ==
    (call.op = "convert" /\ call.nth = 2 /\ ~pathMarker) =>
        /\ ret.kind = "already"
        /\ file = pre.file
        /\ backup = pre.backup
        /\ backup = call.original

(***************************************************************************)
(* Properties of the window, checked under SpecDetect.                     *)
(***************************************************************************)

HasNonAscii(data) == \E i \in 1..Len(data) : data[i] >= 128

\* a file without BOM, all of it valid UTF-8, analysed without a library
\* through a window of at least one byte
Utf8FileNoLibrary ==
    /\ WithoutBom
    /\ ~LibraryAvailable
    /\ call.max_bytes >= 1
    /\ utf8_decode(pre.file.data).ok

\* C22, as stated: such a file with a whole non-ASCII character in the
\* analysed prefix is reported as utf-8 for every window, also when the
\* window cuts a later multi-byte character in two.
C22_Utf8WhateverWindow ==
    (/\ Utf8FileNoLibrary
     /\ \E k \in 1..Len(Analysed) :
           utf8_decode(Prefix(Analysed, k)).ok /\ HasNonAscii(Prefix(Analysed, k)))
        => ret.encoding = "utf-8"

\* C22, amended: such a file is reported as utf-8 (by the fallback, with 90
\* or 85) exactly when the analysed prefix has a non-ASCII byte and is
\* itself valid UTF-8; when the window cuts a multi-byte character the
\* result is one of cp949, euc-kr and iso-8859-1.
C22_Utf8WhenWindowDecodes ==
    (Utf8FileNoLibrary /\ HasNonAscii(Analysed)) =>
        IF utf8_decode(Analysed).ok
          THEN /\ ret.encoding = "utf-8"
               /\ ret.method = "fallback-utf8"
               /\ ret.confidence \in {85, 90}
          ELSE /\ Len(Analysed) < Len(pre.file.data)
               /\ ret.encoding \in {"cp949", "euc-kr", "iso-8859-1"}

\* a window that ends between two characters of a longer file
C22_Witness ==
    /\ Utf8FileNoLibrary
    /\ pre.file.data = <<195, 128, 195, 128>>
    /\ call.max_bytes = 2
    /\ ret.encoding = "utf-8"
    /\ ret.confidence = 85

(***************************************************************************)
(* Properties of the outcome of a conversion, checked under Spec.          *)
(***************************************************************************)
\* C23: convert_file_encoding returns the conversion-completed outcome only
\* when write_file_with_content wrote the file in the target encoding,
\* whatever characters the path contains: a failure message that embeds the
\* path is never taken for a success.
C23_CompletedMeansWritten ==
    (ConvertDone /\ ret.kind = "completed") =>
        \E i \in 1..Len(log) :
            /\ log[i].step = "open-w"
            /\ log[i].enc = call.target

Detected(enc) == \E i \in 1..Len(log) : log[i].step = "detect" /\ log[i].enc = enc
DetectedOutsideRegistry ==
    /\ ConvertDone
    /\ \E i \in 1..Len(log) :
          log[i].step = "detect" /\ log[i].enc \notin SUPPORTED_ENCODINGS

SERVER_MAX_BYTES == 1024

\* lines 85-116: utf-8, cp949, ascii, iso-8859-1, in this order
guess_encoding_without_bom(raw_data) ==
    IF utf8_decode(raw_data).ok THEN [encoding |-> "utf-8", confidence |-> 90]
    ELSE IF cp949_decode(raw_data).ok THEN [encoding |-> "cp949", confidence |-> 80]
    ELSE IF ascii_decode(raw_data).ok THEN [encoding |-> "ascii", confidence |-> 95]
    ELSE IF latin1_decode(raw_data).ok THEN [encoding |-> "iso-8859-1", confidence |-> 50]
    ELSE [encoding |-> "unknown", confidence |-> 0]

\* lines 16-83: the signatures of utf-8 and utf-16 only, then the guess
server_detect_file_encoding(f, md) ==
    IF ~f.exists THEN DetectionError("not-found")
    ELSE IF Len(f.data) = 0
      THEN [error |-> "no", encoding |-> "empty", has_bom |-> FALSE, confidence |-> 100,
            method |-> "absent"]
    ELSE IF ~md.r THEN DetectionError("exception")
    ELSE LET raw_data == ReadBytes(f.data, SERVER_MAX_BYTES)
             bom == IF StartsWith(raw_data, UTF8_BOM) THEN "utf-8-bom"
                    ELSE IF StartsWith(raw_data, UTF16_LE_BOM) THEN "utf-16-le"
                    ELSE IF StartsWith(raw_data, UTF16_BE_BOM) THEN "utf-16-be"
                    ELSE "None"
             guess == guess_encoding_without_bom(raw_data)
         IN  IF bom # "None"
               THEN [error |-> "no", encoding |-> bom, has_bom |-> TRUE,
                     confidence |-> 100, method |-> "absent"]
               ELSE [error |-> "no", encoding |-> guess.encoding, has_bom |-> FALSE,
                     confidence |-> guess.confidence, method |-> "absent"]

\* lines 118-146: four encodings; every exception ends in the message of
\* line 146, after the open has truncated the file
write_file_with_encoding(f, md, content, encoding, plat) ==
    IF encoding \notin {"utf-8-bom", "utf-8", "cp949", "ascii"}
      THEN [file |-> f, msg |-> "unsupported-encoding"]
    ELSE IF ~md.w
      THEN [file |-> f, msg |-> "error"]
    ELSE LET e == IF encoding = "utf-8"
                    THEN utf8_encode(WriteNewlines(content, plat))
                    ELSE EncodedForWrite(content, encoding, plat)
         IN  [file |-> File(e.data), msg |-> IF e.ok THEN "write-ok" ELSE "error"]

\* lines 649-664: the codec the tool reads the file with
ToolSourceCodec(current_encoding) ==
    IF current_encoding \in {"utf-8", "cp949", "ascii"} THEN current_encoding
    ELSE "utf-8-bom"

\* lines 606-684: the result of the writer is put into the text of the
\* answer and not looked at
call_tool_convert_file_encoding(f, b, md, target_encoding, backup_flag, plat) ==
    IF ~f.exists
      THEN Outcome(f, b, md, "not-found", <<>>)
    ELSE LET current_info == server_detect_file_encoding(f, md)
         IN  IF current_info.error # "no"
               THEN Outcome(f, b, md, "detect-failed", <<>>)
             ELSE LET current_encoding == current_info.encoding
                      s1 == <<Step("detect", current_encoding, <<>>)>>
                  IN  IF current_encoding = target_encoding
                        THEN Outcome(f, b, md, "already", s1)
                      ELSE LET mb == MakeBackup(f, b, md, backup_flag)
                               d == DecodedForRead(f.data, ToolSourceCodec(current_encoding))
                           IN  IF ~mb.ok
                                 THEN Outcome(f, b, md, "exception", s1)
                               ELSE IF ~md.r \/ ~d.ok
                                 THEN Outcome(f, mb.backup, mb.mode, "exception",
                                              s1 \o mb.steps)
                               ELSE LET content == UniversalNewlines(d.text)
                                        result == write_file_with_encoding(
                                                      f, mb.mode, content,
                                                      target_encoding, plat)
                                    IN  [Outcome(result.file, mb.backup, mb.mode,
                                                 "completed",
                                                 s1 \o mb.steps
                                                    \o <<Step(result.msg, target_encoding,
                                                              content)>>)
                                           EXCEPT !.backup_msg = BackupMsg(backup_flag)]

(***************************************************************************)
(* The tool specification: one file, one call of the tool, and beside it   *)
(* what file_operations.convert_file_encoding makes of the same call.      *)
(***************************************************************************)
CallTool(target_encoding, backup_flag, lib) ==
    /\ call.op = "none"
    /\ LET t == call_tool_convert_file_encoding(file, backup, mode, target_encoding,
                                                backup_flag, platform)
           o == convert_file_encoding(file, backup, mode, pathMarker,
                                      HAS_CHARSET_NORMALIZER, HAS_CHARDET, lib,
                                      target_encoding, backup_flag, platform)
       IN  /\ call' = [op |-> "tool", target |-> target_encoding,
                       backup |-> backup_flag, lib |-> lib,
                       function |-> [file |-> o.file, backup |-> o.backup,
                                     kind |-> o.kind, steps |-> o.steps]]
           /\ pre' = [file |-> file, backup |-> backup]
           /\ file' = t.file
           /\ backup' = t.backup
           /\ mode' = t.mode
           /\ ret' = [kind |-> t.kind, backup_msg |-> t.backup_msg]
           /\ log' = t.steps
    /\ UNCHANGED <<pathMarker, HAS_CHARSET_NORMALIZER, HAS_CHARDET, platform, dir>>

NextServer ==
    \E target_encoding \in Targets, backup_flag \in BOOLEAN, lib \in ConfidentLibChoices :
        CallTool(target_encoding, backup_flag, lib)

SpecServer == Init /\ [][NextServer]_vars

(***************************************************************************)
(* Properties of the tool, checked under SpecServer.                       *)
(***************************************************************************)
SuccessKinds == {"completed", "already"}

\* C25: the convert_file_encoding tool of server.py behaves like
\* file_operations.convert_file_encoding on every input: same file bytes at
\* the end and same verdict; when the write in the target encoding fails,
\* the tool reports a failure, and with backup the original bytes are back.
\* Stated for paths without the marker word and without a library detector.
C25_ToolLikeFunction ==
    (call.op = "tool" /\ ~pathMarker /\ ~HAS_CHARSET_NORMALIZER /\ ~HAS_CHARDET) =>
        /\ file = call.function.file
        /\ (ret.kind \in SuccessKinds) = (call.function.kind \in SuccessKinds)
        /\ (\E i \in 1..Len(log) : log[i].step = "error") =>
              /\ ret.kind \notin SuccessKinds
              /\ call.backup => file = pre.file

====
